---- MODULE Spec2Model ----
(***************************************************************************)
(* A model of the chat-based spreadsheet tool: the session loop of         *)
(* main.py (main, process_natural_language, handle_intent) over the        *)
(* SQLite helpers of utils.py (load_csv_to_db, execute_query, list_tables, *)
(* table_exists, ...).                                                     *)
(*                                                                         *)
(* Texts (oracle responses, query strings, file paths) are sequences of    *)
(* tokens; a token is a string.  The store is the database file            *)
(* spreadsheet.db: `db' is its committed content, `view' is what the       *)
(* session connection sees (db plus the session's uncommitted              *)
(* transaction, which execute_query never commits).                        *)
(***************************************************************************)
EXTENDS Integers, Sequences, FiniteSets, TLC

VARIABLES
    pc,           \* "prompt": main waits in input(); "dispatch": between
                  \* process_natural_language and handle_intent; "exited"
    db,           \* committed tables of spreadsheet.db, in sqlite_master order
    view,         \* the tables as the session connection sees them
    inTxn,        \* the session connection holds an open write transaction
    connOpen,     \* the session connection (main.py:162) is open
    ingestOpen,   \* a connection opened by load_csv_to_db is still open
    response,     \* the oracle's outcome for the current turn
    intent_data,  \* what process_natural_language returned for the turn
    events        \* what the current turn did, in order: prints, log lines, calls

vars == <<pc, db, view, inTxn, connOpen, ingestOpen, response, intent_data, events>>

\* ------------------------------------------------------------------ bounds

\* Most rows a table holds; data frames and INSERTs are drawn to fit.
MaxRows == 1

\* ------------------------------------------------------------- sequences

RECURSIVE SeqsUpTo(_, _)
SeqsUpTo(S, n) ==
    IF n = 0 THEN {<<>>}
    ELSE LET shorter == SeqsUpTo(S, n - 1)
         IN  shorter \cup {Append(s, x) : s \in {t \in shorter : Len(t) = n - 1}, x \in S}

RECURSIVE Concat(_)
Concat(s) == IF s = <<>> THEN "" ELSE Head(s) \o Concat(Tail(s))

Count(x, s) == Cardinality({i \in 1..Len(s) : s[i] = x})

Last(s) == s[Len(s)]

Front(s) == SubSeq(s, 1, Len(s) - 1)

\* Python's dict.get(key, default) on a record-as-dict.
Get(d, k, default) == IF k \in DOMAIN d THEN d[k] ELSE default

\* Python's None, where a string or a text is expected.
None == "<None>"

\* ------------------------------------------------------------------ texts

Whitespace == {" ", "\n"}

\* str.strip() (main.py:94): drops leading and trailing whitespace.
RECURSIVE lstrip(_)
lstrip(s) == IF s # <<>> /\ Head(s) \in Whitespace THEN lstrip(Tail(s)) ELSE s

RECURSIVE rstrip(_)
rstrip(s) == IF s # <<>> /\ Last(s) \in Whitespace THEN rstrip(Front(s)) ELSE s

stripIdentity(s) == s

strip(s) == rstrip(lstrip(s))

\* ----------------------------------------------------------- file paths

\* A path is a sequence of components: directory parts end with "/", an
\* extension starts with ".".
DirParts == {"data/"}

Exts == {".csv"}

Paths ==
    { <<"sales", ".csv">>, <<"data/", "sales", ".csv">>,
      <<"orders", ".csv">>, <<".csv">> }

\* os.path.basename (utils.py:59): what follows the last directory part.
RECURSIVE basename(_)
basename(p) ==
    IF \E i \in 1..Len(p) : p[i] \in DirParts THEN basename(Tail(p)) ELSE p

\* os.path.splitext(...)[0] (utils.py:59): the path without its extension; a
\* leading dot does not start an extension.
splitext0(p) ==
    IF Len(p) >= 2 /\ Last(p) \in Exts THEN Front(p) ELSE p

\* The table name load_csv_to_db derives when none is given (utils.py:58-59).
DerivedTableName(csv_path) == Concat(splitext0(basename(csv_path)))

\* Names SQLite accepts unquoted in CREATE TABLE <name> (...).
TableNames == {"sales", "orders"}

\* ------------------------------------------------------------ exceptions

\* An exception value: its class and str(e).
Exc(type, msg) == [type |-> type, msg |-> msg]

NoExc == Exc("none", "")

\* The classes the model raises that derive from Exception; SystemExit, which
\* exit(0) raises, derives from BaseException only.
ExceptionClasses ==
    { "OperationalError", "DatabaseError", "ProgrammingError", "TypeError", "AttributeError",
      "FileNotFoundError", "EOFError", "APITimeoutError", "APIConnectionError",
      "AuthenticationError", "RateLimitError" }

\* ---------------------------------------------------------------- events

\* One thing a turn did: ev is "print", "log" or "call"; by is the function
\* that did it; text is the message with its placeholders, arg what fills them.
Ev(ev, by, text, arg) == [ev |-> ev, by |-> by, text |-> text, arg |-> arg]

Say(by, text, arg) == Ev("print", by, text, arg)

Log(by, text, arg) == Ev("log", by, text, arg)

Call(by, text) == Ev("call", by, text, None)

Said(evs) == SelectSeq(evs, LAMBDA e : e.ev = "print")

\* ----------------------------------------------------------------- store

\* A table of the store: its name, its columns (name and declared type, in
\* declared order) and its rows (tuples, in rowid order).
Table(name, cols, rows) == [name |-> name, cols |-> cols, rows |-> rows]

Column(name, type) == [name |-> name, type |-> type]

FindTable(tables, name) ==
    IF \E i \in 1..Len(tables) : tables[i].name = name
    THEN CHOOSE i \in 1..Len(tables) : tables[i].name = name
    ELSE 0

RemoveAt(s, i) == SubSeq(s, 1, i - 1) \o SubSeq(s, i + 1, Len(s))

\* utils.py:96-100. SELECT name FROM sqlite_master WHERE type='table'.
list_tablesNone(tables) == <<>>

\* list_tables with the names in reverse of the store's order.
list_tablesReversed(tables) == [i \in 1..Len(tables) |-> tables[Len(tables) + 1 - i].name]

list_tables(tables) == [i \in 1..Len(tables) |-> tables[i].name]

\* utils.py:39-43. SELECT name FROM sqlite_master WHERE type='table' AND name=?
table_existsNever(tables, table_name) == FALSE

table_exists(tables, table_name) == FindTable(tables, table_name) # 0

\* utils.py:45-49. PRAGMA table_info(<table_name>): no rows for a missing table.
get_table_schema(tables, table_name) ==
    LET i == FindTable(tables, table_name)
    IN  IF i = 0 THEN <<>>
        ELSE [k \in 1..Len(tables[i].cols) |->
                 [name |-> tables[i].cols[k].name, type |-> tables[i].cols[k].type]]

\* get_schema_description answering from a description kept since startup,
\* when the store had no table.
get_schema_descriptionAtStartup(tables) == <<>>

\* main.py:24-34. One line per table: the name and its columns with types.
get_schema_description(tables) ==
    LET names == list_tables(tables)
    IN  [i \in 1..Len(names) |->
            [table |-> names[i], cols |-> get_table_schema(tables, names[i])]]

\* ------------------------------------------------------------ SQL texts

\* The statements the model's query texts hold, each one token.
Statements ==
    [ t \in {"SELECT * FROM " \o n : n \in TableNames} |-> "select" ] @@
    [ t \in {"SELECT * FROM sales WHERE 1=0"} |-> "selectnone" ] @@
    [ t \in {"INSERT INTO sales VALUES (1)"} |-> "insert" ] @@
    [ t \in {"DROP TABLE sales"} |-> "drop" ]

\* The table a statement names.
StatementTable ==
    [ t \in DOMAIN Statements |->
        CHOOSE n \in TableNames :
            t \in { "SELECT * FROM " \o n, "SELECT * FROM " \o n \o " WHERE 1=0",
                    "INSERT INTO " \o n \o " VALUES (1)", "DROP TABLE " \o n } ]

\* A text that is no SQL.
Garbage == "SELEC"

\* dict(zip(columns, row)) (utils.py:91).
RowDict(cols, row) ==
    [ n \in {cols[k].name : k \in 1..Len(cols)} |->
        row[CHOOSE k \in 1..Len(cols) : cols[k].name = n] ]

\* ----------------------------------------------------------- query executor

\* cursor.description of a statement with no row set (None): no columns.
NoDescription == <<>>

\* cursor.execute(query) on the session connection (utils.py:88), under
\* Python's implicit transaction control: INSERT opens a transaction that
\* stays open; DROP runs in the open transaction, or commits at once when
\* there is none.  storeFault: the store fails the call (I/O error, corrupt
\* or locked file).
cursor_execute(d, v, txn, query, storeFault) ==
    LET unchanged == [db |-> d, view |-> v, inTxn |-> txn]
        fault(type, msg) ==
            unchanged @@ [exc |-> Exc(type, msg), description |-> NoDescription, rows |-> <<>>]
        stmts == SelectSeq(query, LAMBDA t : t \notin Whitespace)
        st    == stmts[1]
        i     == FindTable(v, StatementTable[st])
    IN  IF storeFault THEN fault("OperationalError", "disk I/O error")
        ELSE IF Len(stmts) > 1
        THEN fault("ProgrammingError", "You can only execute one statement at a time.")
        ELSE IF Len(stmts) = 0
        THEN unchanged @@ [exc |-> NoExc, description |-> NoDescription, rows |-> <<>>]
        ELSE IF st \notin DOMAIN Statements
        THEN fault("OperationalError", "syntax error")
        ELSE IF i = 0 THEN fault("OperationalError", "no such table")
        ELSE CASE Statements[st] = "select" ->
                    unchanged @@
                    [exc |-> NoExc, description |-> v[i].cols, rows |-> v[i].rows]
               [] Statements[st] = "selectnone" ->
                    unchanged @@ [exc |-> NoExc, description |-> v[i].cols, rows |-> <<>>]
               [] Statements[st] = "insert" ->
                    [db |-> d,
                     view |-> [v EXCEPT ![i].rows = Append(@, <<1>>)],
                     inTxn |-> TRUE,
                     exc |-> NoExc, description |-> NoDescription, rows |-> <<>>]
               [] Statements[st] = "drop" ->
                    [db |-> IF txn THEN d ELSE RemoveAt(v, i),
                     view |-> RemoveAt(v, i),
                     inTxn |-> txn,
                     exc |-> NoExc, description |-> NoDescription, rows |-> <<>>]

\* execute_query without its try/except: what cursor.execute or the iteration
\* of cursor.description raises leaves the function.
execute_queryUncaught(d, v, txn, query, storeFault) ==
    LET c   == cursor_execute(d, v, txn, query, storeFault)
        exc == IF c.exc # NoExc THEN c.exc
               ELSE IF c.description = NoDescription
               THEN Exc("TypeError", "'NoneType' object is not iterable")
               ELSE NoExc
    IN  [db |-> c.db, view |-> c.view, inTxn |-> c.inTxn,
         exc |-> NoExc, raised |-> exc,
         result |-> IF exc # NoExc THEN <<>>
                    ELSE [k \in 1..Len(c.rows) |-> RowDict(c.description, c.rows[k])],
         events |-> <<Call("execute_query", "cursor.execute")>>]

\* utils.py:84-94. Whatever is raised in the try block is logged and turned
\* into []; iterating cursor.description raises TypeError when it is None.
\* Nothing is committed or rolled back. `exc' is the exception the except
\* clause caught, `raised' the one that leaves the function: none, the
\* handler of utils.py:92-94 returns.
execute_query(d, v, txn, query, storeFault) ==
    LET c   == cursor_execute(d, v, txn, query, storeFault)
        exc == IF c.exc # NoExc THEN c.exc
               ELSE IF c.description = NoDescription
               THEN Exc("TypeError", "'NoneType' object is not iterable")
               ELSE NoExc
    IN  [db |-> c.db, view |-> c.view, inTxn |-> c.inTxn,
         exc |-> exc, raised |-> NoExc,
         result |-> IF exc # NoExc THEN <<>>
                    ELSE [k \in 1..Len(c.rows) |-> RowDict(c.description, c.rows[k])],
         events |-> <<Call("execute_query", "cursor.execute")>> \o
                    (IF exc # NoExc
                     THEN <<Log("execute_query", "ERROR Error executing query: {e}", exc.msg)>>
                     ELSE <<>>)]

\* --------------------------------------------------------------- ingestion

\* What pd.read_csv gives for a readable file: the header, each column's
\* pandas dtype and the rows.
Frames ==
    { [columns |-> <<"c">>, dtypes |-> <<"int64">>, rows |-> rs] :
        rs \in SeqsUpTo({<<1>>}, MaxRows) }
    \cup
    { [columns |-> <<"unit price">>, dtypes |-> <<"float64">>, rows |-> rs] :
        rs \in SeqsUpTo({<<1>>}, MaxRows) }

\* utils.py:21-26.
type_mapping ==
    [ dt \in {"object", "int64", "float64", "datetime64[ns]"} |->
        CASE dt = "object" -> "TEXT"
          [] dt = "int64" -> "INTEGER"
          [] dt = "float64" -> "REAL"
          [] dt = "datetime64[ns]" -> "TEXT" ]

\* utils.py:19-32. Column -> SQLite type, in column order; TEXT by default.
infer_schema(df) ==
    [ k \in 1..Len(df.columns) |->
        [col |-> df.columns[k], dtype |-> Get(type_mapping, df.dtypes[k], "TEXT")] ]

\* utils.py:34-37. CREATE TABLE IF NOT EXISTS <table_name> (<col> <dtype>, ...)
\* with the names put in unquoted.
create_table_sql(table_name, schema) ==
    [table |-> table_name, columns |-> schema]

\* The words of a header cell.
Words == [ c \in {"c", "unit price"} |-> IF c = "c" THEN <<"c">> ELSE <<"unit", "price">> ]

\* How SQLite reads one unquoted column definition "<col> <dtype>": the first
\* word names the column, the rest is its declared type.
ColumnDef(def) ==
    LET w == Words[def.col]
    IN  Column(w[1], IF Len(w) = 1 THEN def.dtype ELSE w[2] \o " " \o def.dtype)

\* conn.execute(create_sql) on the ingestion connection (utils.py:72). The
\* statement is its own transaction: it commits at once.  It fails on a name
\* that is no identifier and while the session's open transaction holds the
\* write lock.
execute_create(d, sessionTxn, create_sql) ==
    IF create_sql.table \notin TableNames
    THEN [exc |-> Exc("OperationalError", "syntax error"), db |-> d]
    ELSE IF sessionTxn
    THEN [exc |-> Exc("OperationalError", "database is locked"), db |-> d]
    ELSE IF FindTable(d, create_sql.table) # 0
    THEN [exc |-> NoExc, db |-> d]
    ELSE [exc |-> NoExc,
          db |-> Append(d, Table(create_sql.table,
                                 [k \in 1..Len(create_sql.columns) |->
                                     ColumnDef(create_sql.columns[k])],
                                 <<>>))]

\* df.to_sql(table_name, conn, if_exists='append', index=False) (utils.py:75):
\* inserts the rows under the header's names, quoted, in one transaction that
\* is rolled back when an insert fails; an empty frame inserts nothing.
to_sql(d, df, table_name) ==
    LET i == FindTable(d, table_name)
        known == {d[i].cols[k].name : k \in 1..Len(d[i].cols)}
    IN  IF df.rows # <<>> /\ \E k \in 1..Len(df.columns) : df.columns[k] \notin known
        THEN [exc |-> Exc("OperationalError", "table has no column named"), db |-> d]
        ELSE [exc |-> NoExc, db |-> [d EXCEPT ![i].rows = @ \o df.rows]]

\* Where the environment makes a load fail, if anywhere: an unreadable or
\* malformed file, a database file that cannot be opened, a store that fails
\* a statement.
LoadFaults == {"none", "read_csv", "connect", "table_exists", "create", "to_sql"}

\* utils.py:51-82. read is what pd.read_csv gives; sessionTxn says whether the
\* session connection holds the write lock; finalized says whether the runtime
\* finalizes a connection the function returns without closing.  conn is the
\* state the function leaves its connection in: "unopened", "closed" (by
\* conn.close(), after the commit), "finalized" or "open".
load_csv_to_db(csv_path, table_name, d, sessionTxn, read, faultAt, finalized) ==
    LET name == IF table_name = None \/ table_name = ""
                THEN DerivedTableName(csv_path) ELSE table_name
        unreleased == IF finalized THEN "finalized" ELSE "open"
        failed(exc, d2, conn) ==
            [ret |-> FALSE, db |-> d2, conn |-> conn,
             events |-> <<Log("load_csv_to_db", "ERROR Error loading CSV: {e}", exc.msg)>>]
        create == IF faultAt = "create"
                  THEN [exc |-> Exc("OperationalError", "database is locked"), db |-> d]
                  ELSE execute_create(d, sessionTxn,
                                      create_table_sql(name, infer_schema(read)))
        insert == IF faultAt = "to_sql"
                  THEN [exc |-> Exc("OperationalError", "database is locked"),
                        db |-> create.db]
                  ELSE to_sql(create.db, read, name)
    IN  IF faultAt = "read_csv"
        THEN failed(Exc("FileNotFoundError", "No such file or directory"), d, "unopened")
        ELSE IF faultAt = "connect"
        THEN failed(Exc("OperationalError", "unable to open database file"), d, "unopened")
        ELSE IF faultAt = "table_exists"
        THEN failed(Exc("OperationalError", "disk I/O error"), d, unreleased)
        ELSE IF table_exists(d, name)
        THEN [ret |-> FALSE, db |-> d, conn |-> unreleased,
              events |-> <<Log("load_csv_to_db", "WARNING Table {table_name} already exists",
                               name)>>]
        ELSE IF create.exc # NoExc THEN failed(create.exc, d, unreleased)
        ELSE IF insert.exc # NoExc THEN failed(insert.exc, create.db, unreleased)
        ELSE [ret |-> TRUE, db |-> insert.db, conn |-> "closed", events |-> <<>>]

\* ----------------------------------------------------------- the oracle

\* What json.loads returns: a dict (a record of its items) or something else.
Dict(items) == [type |-> "dict", items |-> items]

NonDict == [type |-> "int", items |-> <<>>]

\* The JSON text of a load_csv command for a path.
LoadCsvText(p) == "{\"intent\": \"load_csv\", \"filename\": \"" \o Concat(p) \o "\"}"

\* The JSON documents the model's oracle can write, each one token, with the
\* value json.loads gives for it.
JsonDocs ==
    [ t \in {"{\"intent\": \"list_tables\"}"} |-> Dict([intent |-> "list_tables"]) ] @@
    [ t \in {LoadCsvText(p) : p \in Paths} |->
        Dict([intent |-> "load_csv",
              filename |-> CHOOSE p \in Paths : LoadCsvText(p) = t]) ] @@
    [ t \in {"{\"intent\": \"load_csv\"}"} |-> Dict([intent |-> "load_csv"]) ] @@
    [ t \in {"{\"intent\": \"exit\"}"} |-> Dict([intent |-> "exit"]) ] @@
    [ t \in {"{\"intent\": \"generate_sql\", \"query\": \"SELECT * FROM sales\"}"} |->
        Dict([intent |-> "generate_sql", query |-> <<"SELECT * FROM sales">>]) ] @@
    [ t \in {"{\"intent\": \"generate_sql\"}"} |-> Dict([intent |-> "generate_sql"]) ] @@
    [ t \in {"{\"intent\": \"dance\"}"} |-> Dict([intent |-> "dance"]) ] @@
    [ t \in {"{\"rows\": 3}"} |-> Dict([rows |-> 3]) ] @@
    [ t \in {"42"} |-> NonDict ]

\* json.loads(result) (main.py:98): a text that is one JSON document, with
\* or without whitespace around it, parses; anything else raises
\* JSONDecodeError.
json_loads(text) ==
    LET doc == SelectSeq(text, LAMBDA t : t \notin Whitespace)
    IN  IF Len(doc) = 1 /\ doc[1] \in DOMAIN JsonDocs
        THEN [ok |-> TRUE, value |-> JsonDocs[doc[1]]]
        ELSE [ok |-> FALSE, value |-> NonDict]

\* The oracle's outcome for one request: a completion with its message
\* content (a text, or None), or a fault of the call.
Completion(content) == [status |-> "ok", content |-> content, exc |-> NoExc]

NoContent == [status |-> "none", content |-> <<>>, exc |-> NoExc]

OracleFault(exc) == [status |-> "fault", content |-> <<>>, exc |-> exc]

NoResponse == [status |-> "unasked", content |-> <<>>, exc |-> NoExc]

OracleFaults ==
    { Exc("APITimeoutError", "Request timed out."),
      Exc("AuthenticationError", "Error code: 401") }

\* The unpadded texts of the model's oracle: JSON documents, single
\* statements, no SQL, nothing, two statements, a JSON document after a remark.
Bodies ==
    { <<t>> : t \in DOMAIN JsonDocs } \cup
    { <<t>> : t \in DOMAIN Statements } \cup
    { <<Garbage>>, <<>>,
      <<"SELECT * FROM sales", "\n", "DROP TABLE sales">>,
      <<"Sure:", " ", "{\"intent\": \"list_tables\"}">> }

\* The bodies that also come padded with whitespace.
PaddedBodies ==
    { <<"{\"intent\": \"list_tables\"}">>, <<"SELECT * FROM sales">> }

\* The oracle's texts: a body, possibly padded with whitespace.
Contents ==
    Bodies \cup
    { <<" ">> \o body : body \in PaddedBodies } \cup
    { body \o <<"\n">> : body \in PaddedBodies }

\* The oracle is not asked when the schema reads fail before the request.
OracleOutcomes ==
    {Completion(c) : c \in Contents} \cup {NoContent} \cup
    {OracleFault(e) : e \in OracleFaults} \cup {NoResponse}

\* ------------------------------------------------------ the classifier

\* `except Exception' (main.py:103, main.py:172, utils.py:80, utils.py:92).
IsException(exc) == exc.type \in ExceptionClasses

\* process_natural_language without its try/except: the fault leaves it.
process_natural_languageUncaught(v, oracle) ==
    LET raised ==
            IF oracle.status = "unasked" THEN Exc("OperationalError", "disk I/O error")
            ELSE IF oracle.status = "fault" THEN oracle.exc
            ELSE IF oracle.status = "none"
            THEN Exc("AttributeError", "'NoneType' object has no attribute 'strip'")
            ELSE NoExc
        parsed == json_loads(strip(oracle.content))
    IN  [intent_data |-> IF parsed.ok THEN parsed.value
                         ELSE Dict([intent |-> "generate_sql", query |-> strip(oracle.content)]),
         events |-> <<>>,
         exc |-> raised]

\* main.py:36-105. v is what the session connection sees; oracle is the
\* oracle's outcome, NoResponse when the store fails the schema reads and the
\* oracle is never asked.  exc is what the function lets out (nothing: the try
\* block spans the body).
process_natural_language(v, oracle) ==
    LET schema_desc == get_schema_description(v)
        storeFault == oracle.status = "unasked"
        raised ==
            IF storeFault THEN Exc("OperationalError", "disk I/O error")
            ELSE IF oracle.status = "fault" THEN oracle.exc
            ELSE IF oracle.status = "none"
            THEN Exc("AttributeError", "'NoneType' object has no attribute 'strip'")
            ELSE NoExc
        result == strip(oracle.content)
        parsed == json_loads(result)
        asked == IF storeFault THEN <<>>
                 ELSE <<Ev("call", "process_natural_language",
                           "client.chat.completions.create", schema_desc)>>
    IN  IF raised # NoExc /\ IsException(raised)
        THEN [intent_data |-> Dict([intent |-> "error", message |-> raised.msg]),
              events |-> asked \o
                         <<Say("process_natural_language",
                               "Error processing natural language: {e}", raised.msg)>>,
              exc |-> NoExc]
        ELSE [intent_data |-> IF parsed.ok THEN parsed.value
                              ELSE Dict([intent |-> "generate_sql", query |-> result]),
              events |-> asked,
              exc |-> raised]

\* -------------------------------------------------------- the dispatcher

\* What one call of handle_intent does: its events, the store and the
\* connections as it leaves them, and the exception it lets out.
Effect(evs, d, v, txn, co, ic, exc) ==
    [events |-> evs, db |-> d, view |-> v, inTxn |-> txn, connOpen |-> co,
     ingestOpen |-> ic, exc |-> exc]

\* No intent record: before the first turn, and after a turn that got none.
NoIntent == [type |-> "none", items |-> <<>>]

\* intent_data.get("intent") (main.py:109) of a dict.
IntentOf(data) == Get(data.items, "intent", None)

\* `if filename:' and `if query:' (main.py:122, main.py:132): the key is
\* there and its text is not empty.
Truthy(data, key) == key \in DOMAIN data.items /\ data.items[key] # <<>>

\* main.py:111-118.
handle_list_tables(d, v, txn, co, ic, storeFault) ==
    LET tables == list_tables(v)
    IN  IF storeFault
        THEN Effect(<<Call("list_tables", "cursor.execute")>>, d, v, txn, co, ic,
                    Exc("OperationalError", "disk I/O error"))
        ELSE Effect(<<Call("list_tables", "cursor.execute")>> \o
                    (IF tables # <<>>
                     THEN <<Say("handle_intent", "\nAvailable tables:", None)>> \o
                          [i \in 1..Len(tables) |-> Say("handle_intent", "- {table}", tables[i])]
                     ELSE <<Say("handle_intent", "No tables found in database", None)>>),
                    d, v, txn, co, ic, NoExc)

\* main.py:120-128. A load that changes the store changes what the session
\* connection sees: it can only happen while the session has no transaction.
handle_load_csv(data, d, v, txn, co, ic, read, faultAt, finalized) ==
    LET filename == data.items.filename
        r == load_csv_to_db(filename, None, d, txn, read, faultAt, finalized)
    IN  IF Truthy(data, "filename")
        THEN Effect(<<Ev("call", "handle_intent", "load_csv_to_db", filename)>> \o r.events \o
                    <<IF r.ret
                      THEN Say("handle_intent", "Successfully loaded {filename}", filename)
                      ELSE Say("handle_intent", "Failed to load {filename}", filename)>>,
                    r.db, IF txn THEN v ELSE r.db, txn, co,
                    ic \/ r.conn = "open", NoExc)
        ELSE Effect(<<Say("handle_intent", "No filename provided", None)>>,
                    d, v, txn, co, ic, NoExc)

\* main.py:135-140: how a result of execute_query is reported.
report_results(results) ==
    IF results # <<>>
    THEN <<Say("handle_intent", "\nResults:", None)>> \o
         [i \in 1..Len(results) |-> Say("handle_intent", "{row}", results[i])]
    ELSE <<Say("handle_intent", "No results found", None)>>

\* handle_generate_sql with the echo of main.py:133 moved below the report of
\* main.py:135-140.
handle_generate_sqlEchoLast(data, d, v, txn, co, ic, storeFault) ==
    LET query == data.items.query
        r == execute_query(d, v, txn, query, storeFault)
    IN  IF Truthy(data, "query")
        THEN Effect(r.events \o report_results(r.result) \o
                    <<Say("handle_intent", "\nGenerated SQL:\n{query}", query)>>,
                    r.db, r.view, r.inTxn, co, ic, NoExc)
        ELSE Effect(<<>>, d, v, txn, co, ic, NoExc)

\* main.py:130-140. The echo (133) comes before the call of execute_query
\* (134); what execute_query raises, if anything, leaves handle_intent before
\* the report.
handle_generate_sql(data, d, v, txn, co, ic, storeFault) ==
    LET query == data.items.query
        r == execute_query(d, v, txn, query, storeFault)
    IN  IF Truthy(data, "query")
        THEN Effect(<<Say("handle_intent", "\nGenerated SQL:\n{query}", query)>> \o
                    r.events \o
                    (IF r.raised = NoExc THEN report_results(r.result) ELSE <<>>),
                    r.db, r.view, r.inTxn, co, ic, r.raised)
        ELSE Effect(<<>>, d, v, txn, co, ic, NoExc)

\* handle_exit over a connection whose close() refuses to run twice.
handle_exitStrictClose(d, v, txn, co, ic) ==
    IF co
    THEN Effect(<<Call("handle_intent", "conn.close"),
                  Say("handle_intent", "Goodbye!", None),
                  Call("handle_intent", "exit")>>,
                d, d, FALSE, FALSE, ic, Exc("SystemExit", "0"))
    ELSE Effect(<<Call("handle_intent", "conn.close")>>, d, v, txn, co, ic,
                Exc("ProgrammingError", "Cannot operate on a closed database."))

\* main.py:142-145. conn.close() rolls back the session's open transaction;
\* exit(0) raises SystemExit.  sqlite3's close() of a connection that is closed
\* already does nothing and raises nothing, so co is not read.
handle_exit(d, v, txn, co, ic) ==
    Effect(<<Call("handle_intent", "conn.close"),
             Say("handle_intent", "Goodbye!", None),
             Call("handle_intent", "exit")>>,
           d, d, FALSE, FALSE, ic, Exc("SystemExit", "0"))

\* main.py:147-148.
handle_error(data, d, v, txn, co, ic) ==
    Effect(<<Say("handle_intent", "Error: {message}",
                 Get(data.items, "message", "Unknown error"))>>,
           d, v, txn, co, ic, NoExc)

\* main.py:150-151.
handle_unknown(d, v, txn, co, ic) ==
    Effect(<<Say("handle_intent", "Unknown intent", None)>>, d, v, txn, co, ic, NoExc)

\* main.py:109 on a value that is no dict: it has no get.
handle_non_dict(d, v, txn, co, ic) ==
    Effect(<<>>, d, v, txn, co, ic,
           Exc("AttributeError", "object has no attribute 'get'"))

\* -------------------------------------------------------- the session loop

\* The loop body without a try/except: whatever it lets out ends the process.
main_exceptNone(exc) ==
    IF exc = NoExc THEN [events |-> <<>>, pc |-> "prompt"]
    ELSE [events |-> <<>>, pc |-> "exited"]

\* The loop body under a bare `except:', which also catches SystemExit.
main_exceptBare(exc) ==
    IF exc = NoExc THEN [events |-> <<>>, pc |-> "prompt"]
    ELSE [events |-> <<Say("main", "Error: {e}", exc.msg)>>, pc |-> "prompt"]

\* The try/except of the loop body (main.py:165-174) for what the body let
\* out: nothing; an Exception, which is reported before the next prompt; or
\* anything else, which ends the process.
main_except(exc) ==
    IF exc = NoExc THEN [events |-> <<>>, pc |-> "prompt"]
    ELSE IF IsException(exc)
    THEN [events |-> <<Say("main", "Error: {e}", exc.msg)>>, pc |-> "prompt"]
    ELSE [events |-> <<>>, pc |-> "exited"]

\* The statement of a query text, when it is a single known statement.
SingleStatement(query) ==
    LET stmts == SelectSeq(query, LAMBDA t : t \notin Whitespace)
    IN  IF Len(stmts) = 1 /\ stmts[1] \in DOMAIN Statements THEN stmts[1] ELSE None

\* The rows an intent's query would add fit the model's tables.
Fits(v, data) ==
    LET st == SingleStatement(data.items.query)
        i  == FindTable(v, StatementTable[st])
    IN  (/\ data.type = "dict"
         /\ "query" \in DOMAIN data.items
         /\ st # None
         /\ Statements[st] = "insert"
         /\ i # 0)
        => Len(v[i].rows) < MaxRows

\* main.py:162: the session starts on an empty store with its connection open.
Init ==
    /\ pc = "prompt"
    /\ db = <<>>
    /\ view = <<>>
    /\ inTxn = FALSE
    /\ connOpen = TRUE
    /\ ingestOpen = FALSE
    /\ response = NoResponse
    /\ intent_data = NoIntent
    /\ events = <<>>

\* main.py:166: input() fails (end of input).
InputFault ==
    /\ pc = "prompt"
    /\ LET m == main_except(Exc("EOFError", "EOF when reading a line"))
       IN  /\ events' = m.events
           /\ pc' = m.pc
    /\ response' = NoResponse
    /\ intent_data' = NoIntent
    /\ UNCHANGED <<db, view, inTxn, connOpen, ingestOpen>>

\* main.py:166-169: a line is read and classified.
Classify ==
    /\ pc = "prompt"
    /\ \E oracle \in OracleOutcomes :
        LET r == process_natural_language(view, oracle)
            m == main_except(r.exc)
        IN  /\ Fits(view, r.intent_data)
            /\ response' = oracle
            /\ events' = r.events \o m.events
            /\ IF r.exc = NoExc
               THEN intent_data' = r.intent_data /\ pc' = "dispatch"
               ELSE intent_data' = NoIntent /\ pc' = m.pc
    /\ UNCHANGED <<db, view, inTxn, connOpen, ingestOpen>>

\* main.py:170-174: handle_intent has done eff; the loop goes on or ends.
Finish(eff) ==
    LET m == main_except(eff.exc)
    IN  /\ events' = events \o eff.events \o m.events
        /\ pc' = m.pc
        /\ db' = eff.db
        /\ view' = eff.view
        /\ inTxn' = eff.inTxn
        /\ connOpen' = eff.connOpen
        /\ ingestOpen' = eff.ingestOpen
        /\ UNCHANGED <<response, intent_data>>

DispatchListTables ==
    /\ pc = "dispatch"
    /\ intent_data.type = "dict"
    /\ IntentOf(intent_data) = "list_tables"
    /\ \E storeFault \in BOOLEAN :
        Finish(handle_list_tables(db, view, inTxn, connOpen, ingestOpen, storeFault))

DispatchLoadCsv ==
    /\ pc = "dispatch"
    /\ intent_data.type = "dict"
    /\ IntentOf(intent_data) = "load_csv"
    /\ \E read \in Frames, faultAt \in LoadFaults, finalized \in BOOLEAN :
        Finish(handle_load_csv(intent_data, db, view, inTxn, connOpen, ingestOpen,
                               read, faultAt, finalized))

DispatchGenerateSql ==
    /\ pc = "dispatch"
    /\ intent_data.type = "dict"
    /\ IntentOf(intent_data) = "generate_sql"
    /\ \E storeFault \in BOOLEAN :
        Finish(handle_generate_sql(intent_data, db, view, inTxn, connOpen, ingestOpen,
                                   storeFault))

DispatchExit ==
    /\ pc = "dispatch"
    /\ intent_data.type = "dict"
    /\ IntentOf(intent_data) = "exit"
    /\ Finish(handle_exit(db, view, inTxn, connOpen, ingestOpen))

DispatchError ==
    /\ pc = "dispatch"
    /\ intent_data.type = "dict"
    /\ IntentOf(intent_data) = "error"
    /\ Finish(handle_error(intent_data, db, view, inTxn, connOpen, ingestOpen))

DispatchUnknown ==
    /\ pc = "dispatch"
    /\ intent_data.type = "dict"
    /\ IntentOf(intent_data) \notin {"list_tables", "load_csv", "generate_sql", "exit", "error"}
    /\ Finish(handle_unknown(db, view, inTxn, connOpen, ingestOpen))

DispatchNonDict ==
    /\ pc = "dispatch"
    /\ intent_data.type # "dict"
    /\ Finish(handle_non_dict(db, view, inTxn, connOpen, ingestOpen))

Next ==
    \/ InputFault
    \/ Classify
    \/ DispatchListTables
    \/ DispatchLoadCsv
    \/ DispatchGenerateSql
    \/ DispatchExit
    \/ DispatchError
    \/ DispatchUnknown
    \/ DispatchNonDict

Spec == Init /\ [][Next]_vars

\* ================================================================ claims

\* The query texts the model's classifier can hand to the executor.
QueryTexts == {strip(c) : c \in Contents} \ {<<>>}

HasEvent(evs, ev, by, text) ==
    \E i \in 1..Len(evs) : evs[i].ev = ev /\ evs[i].by = by /\ evs[i].text = text

IsIntent(data, tag) == data.type = "dict" /\ IntentOf(data) = tag

\* The turn's dispatch is over: handle_intent has run on the turn's record.
Dispatched == pc # "dispatch" /\ intent_data.type # "none"

\* C1: for every store state, a query whose execution faults and a query that
\* runs and returns zero rows never give both the same result value and the
\* same report to the user.
C1_EmptyDistinctFromFault ==
    \A q1 \in QueryTexts, q2 \in QueryTexts, storeFault \in BOOLEAN :
        LET faulting == cursor_execute(db, view, inTxn, q1, storeFault)
            r1 == execute_query(db, view, inTxn, q1, storeFault)
            r2 == execute_query(db, view, inTxn, q2, FALSE)
        IN  (faulting.exc # NoExc /\ r2.exc = NoExc /\ r2.result = <<>>)
            => <<r1.result, report_results(r1.result)>>
               # <<r2.result, report_results(r2.result)>>

\* C2: whatever intent record handle_intent is given and whatever the store
\* does, no exception of handle_intent reaches the session loop's catch-all.
C2_DispatchTotal ==
    (Dispatched /\ intent_data.type = "dict") => ~HasEvent(events, "print", "main", "Error: {e}")

\* C3: every turn that got an intent record has printed at least one message
\* when the next prompt is issued.
C3_EveryTurnResponds ==
    (pc = "prompt" /\ intent_data.type # "none") => Len(Said(events)) > 0

\* C4: no connection opened by load_csv_to_db is open once it has returned.
C4_IngestionConnReleased == ~ingestOpen

\* The load_csv turn's file path and the table name it stands for.
LoadPath == intent_data.items.filename

LoadTurn == IsIntent(intent_data, "load_csv") /\ Truthy(intent_data, "filename")

\* C5: a load_csv_to_db call for a name whose table is already in the store
\* returns failure and leaves the committed tables, and what the session sees
\* of them, as they were.
C5_ConflictRefused ==
    [][ (/\ pc = "dispatch"
         /\ LoadTurn
         /\ FindTable(db, DerivedTableName(LoadPath)) # 0)
        => (/\ db' = db
            /\ view' = view
            /\ Last(events').text = "Failed to load {filename}") ]_vars

\* C5's case: a load was refused because its table exists.
C5_Witness ==
    /\ pc = "prompt"
    /\ LoadTurn
    /\ HasEvent(events, "log", "load_csv_to_db", "WARNING Table {table_name} already exists")
    /\ HasEvent(events, "print", "handle_intent", "Failed to load {filename}")
    /\ \E i \in 1..Len(db) : db[i].name = DerivedTableName(LoadPath) /\ db[i].rows # <<>>

\* C6: once a load has reported success, the session connection lists the
\* file's table name exactly once.
C6_LoadedTableListedOnce ==
    (/\ pc = "prompt"
     /\ LoadTurn
     /\ HasEvent(events, "print", "handle_intent", "Successfully loaded {filename}"))
    => Count(DerivedTableName(LoadPath), list_tables(view)) = 1

\* C6's case: a load succeeded in a session that already holds another table.
C6_Witness ==
    /\ pc = "prompt"
    /\ LoadTurn
    /\ HasEvent(events, "print", "handle_intent", "Successfully loaded {filename}")
    /\ Len(view) = 2

\* C7: the session ends only in the dispatch of an exit intent; every other
\* dispatch, and every fault the loop catches, is followed by the next prompt.
C7_OnlyExitEnds ==
    [][ /\ pc' = "exited" => (pc = "dispatch" /\ IsIntent(intent_data, "exit"))
        /\ (pc = "dispatch" /\ ~IsIntent(intent_data, "exit")) => pc' = "prompt"
        /\ pc = "prompt" => pc' \in {"prompt", "dispatch"} ]_vars

\* C7's case: a turn whose fault the loop's catch-all reported is followed by
\* the next prompt.
C7_Witness ==
    /\ pc = "prompt"
    /\ IsIntent(intent_data, "list_tables")
    /\ HasEvent(events, "print", "main", "Error: {e}")

\* The position of a call in a turn's events.
CallAt(evs, text) == CHOOSE i \in 1..Len(evs) : evs[i].ev = "call" /\ evs[i].text = text

\* C8: once an exit intent is dispatched the session connection is closed,
\* then exit is called, the loop's catch-all does not run and the session has
\* ended.
C8_ExitClosesThenEnds ==
    (IsIntent(intent_data, "exit") /\ pc # "dispatch")
    => /\ pc = "exited"
       /\ ~connOpen
       /\ HasEvent(events, "call", "handle_intent", "conn.close")
       /\ HasEvent(events, "call", "handle_intent", "exit")
       /\ CallAt(events, "conn.close") < CallAt(events, "exit")
       /\ ~HasEvent(events, "print", "main", "Error: {e}")

\* C8's case: an exit was dispatched in a session whose store holds tables.
C8_Witness ==
    /\ IsIntent(intent_data, "exit")
    /\ pc = "exited"
    /\ db # <<>>

\* C9: when the oracle call faults, the turn's record is the error intent with
\* the fault's non-empty message, nothing reaches the loop's catch-all, the
\* message is printed by handle_intent and the next prompt follows.
C9_OracleFaultTurnScoped ==
    response.status = "fault"
    => /\ IsIntent(intent_data, "error")
       /\ "message" \in DOMAIN intent_data.items
       /\ intent_data.items.message = response.exc.msg
       /\ intent_data.items.message # ""
       /\ ~HasEvent(events, "print", "main", "Error: {e}")
       /\ pc \in {"dispatch", "prompt"}
       /\ pc = "prompt"
          => \E i \in 1..Len(events) :
                /\ events[i].ev = "print"
                /\ events[i].by = "handle_intent"
                /\ events[i].text = "Error: {message}"
                /\ events[i].arg = response.exc.msg

\* C9's case: a turn whose oracle call faulted is over and the prompt is back.
C9_Witness == response.status = "fault" /\ pc = "prompt"

\* The intent tags handle_intent has a branch for.
RecognizedTags == {"list_tables", "load_csv", "generate_sql", "exit", "error"}

\* The one JSON document a text holds between whitespace, if it is one.
JsonDocOf(text) ==
    LET doc == SelectSeq(text, LAMBDA t : t \notin Whitespace)
    IN  IF Len(doc) = 1 /\ doc[1] \in DOMAIN JsonDocs THEN doc[1] ELSE None

\* A response that parses as a payload with a recognized tag gives that payload.
RecognizedPayloadReturned ==
    (/\ response.status = "ok"
     /\ JsonDocOf(response.content) # None
     /\ \E tag \in RecognizedTags : IsIntent(JsonDocs[JsonDocOf(response.content)], tag))
    => /\ intent_data.type = "dict"
       /\ intent_data.items = JsonDocs[JsonDocOf(response.content)].items

\* text is raw without the whitespace at its two ends.
IsStripped(text, raw) ==
    /\ text # <<>> => (Head(text) \notin Whitespace /\ Last(text) \notin Whitespace)
    /\ \E i \in 1..(Len(raw) + 1), j \in 0..Len(raw) :
        /\ text = SubSeq(raw, i, j)
        /\ \A k \in 1..Len(raw) : (k < i \/ k > j) => raw[k] \in Whitespace

\* C10 as stated: a response that parses as a payload with a recognized tag
\* gives that payload; one that does not parse gives generate_sql whose query
\* is the entire raw response.
C10_QueryIsRawResponse ==
    /\ RecognizedPayloadReturned
    /\ (response.status = "ok" /\ JsonDocOf(response.content) = None)
       => /\ IsIntent(intent_data, "generate_sql")
          /\ "query" \in DOMAIN intent_data.items
          /\ intent_data.items.query = response.content

\* C10 amended: a response that parses as a payload with a recognized tag
\* gives that payload; one that does not parse gives generate_sql whose query
\* is the raw response without its leading and trailing whitespace.
C10_QueryIsStrippedResponse ==
    /\ RecognizedPayloadReturned
    /\ (response.status = "ok" /\ JsonDocOf(response.content) = None)
       => /\ IsIntent(intent_data, "generate_sql")
          /\ "query" \in DOMAIN intent_data.items
          /\ IsStripped(intent_data.items.query, response.content)

\* C10's case: a padded response that is no JSON became a generate_sql record.
C10_Witness ==
    /\ response.status = "ok"
    /\ JsonDocOf(response.content) = None
    /\ IsIntent(intent_data, "generate_sql")
    /\ intent_data.items.query # response.content

\* ------------------------------------------------- the executor on its own

\* The most rows a table of the executor's stores holds.
MaxExecRows == 2

\* Stores a session can have built by loads: table sales with any rows of
\* one INTEGER column, alone or followed by table orders.
ExecStores ==
    {<<>>} \cup
    { <<Table("sales", <<Column("c", "INTEGER")>>, rs)>> :
        rs \in SeqsUpTo({<<1>>, <<2>>}, MaxExecRows) } \cup
    { <<Table("sales", <<Column("c", "INTEGER")>>, rs),
        Table("orders", <<Column("c", "INTEGER")>>, <<>>)>> :
        rs \in SeqsUpTo({<<1>>, <<2>>}, MaxExecRows) }

\* The query texts given to the executor: every statement and a text that is
\* no SQL.
ExecQueries == { <<t>> : t \in DOMAIN Statements \cup {Garbage} }

\* A turn about to dispatch a query the oracle wrote as plain SQL
\* (main.py:99-101), over any of the stores.
InitExec ==
    /\ pc = "dispatch"
    /\ db \in ExecStores
    /\ view = db
    /\ inTxn = FALSE
    /\ connOpen = TRUE
    /\ ingestOpen = FALSE
    /\ response \in {Completion(q) : q \in ExecQueries}
    /\ intent_data = process_natural_language(view, response).intent_data
    /\ events = process_natural_language(view, response).events

NextExec == DispatchGenerateSql

SpecExec == InitExec /\ [][NextExec]_vars

\* The index of the table a one-statement query names, 0 if there is none.
QueryTable(v, q) ==
    IF q[1] \in DOMAIN Statements THEN FindTable(v, StatementTable[q[1]]) ELSE 0

\* C11: for every query text and store state, nothing leaves execute_query as
\* an exception; a fault of the store's execution is caught, logged and
\* answered with the empty list, the store left as it was; a SELECT that runs
\* gives one mapping per row of the table, in the table's row order, from each
\* column name to the row's value in that column; and no GenerateQuery turn
\* ends in the session loop's catch-all.
C11_FaultsCaughtRowsInOrder ==
    /\ \A q \in ExecQueries, storeFault \in BOOLEAN :
        LET c == cursor_execute(db, view, inTxn, q, storeFault)
            r == execute_query(db, view, inTxn, q, storeFault)
            i == QueryTable(view, q)
        IN  /\ r.raised = NoExc
            /\ c.exc # NoExc =>
                   /\ r.result = <<>>
                   /\ r.exc = c.exc
                   /\ r.db = db /\ r.view = view
                   /\ HasEvent(r.events, "log", "execute_query",
                               "ERROR Error executing query: {e}")
            /\ (~storeFault /\ i # 0 /\ Statements[q[1]] = "select") =>
                   /\ Len(r.result) = Len(view[i].rows)
                   /\ \A k \in 1..Len(r.result) :
                        /\ DOMAIN r.result[k] =
                               {view[i].cols[j].name : j \in 1..Len(view[i].cols)}
                        /\ \A j \in 1..Len(view[i].cols) :
                               r.result[k][view[i].cols[j].name] = view[i].rows[k][j]
    /\ (Dispatched /\ IsIntent(intent_data, "generate_sql"))
           => ~HasEvent(events, "print", "main", "Error: {e}")

\* A GenerateQuery turn whose query faulted is over: the fault is in the side
\* log, the loop is back at the prompt and its catch-all printed nothing.
C11_Witness ==
    /\ pc = "prompt"
    /\ IsIntent(intent_data, "generate_sql")
    /\ \E i \in 1..Len(events) :
        /\ events[i].ev = "log"
        /\ events[i].by = "execute_query"
        /\ events[i].arg \in {"syntax error", "no such table", "disk I/O error"}
    /\ ~HasEvent(events, "print", "main", "Error: {e}")

\* The turn's event i is the execution of the query or an outcome of it: the
\* call of cursor.execute, the failure in the side log, or a line of the report.
IsQueryOutcome(e) ==
    \/ e.by = "execute_query"
    \/ /\ e.ev = "print"
       /\ e.by = "handle_intent"
       /\ e.text \in {"\nResults:", "{row}", "No results found"}

\* The turn's event i is the echo of the query text.
IsEcho(e, query) ==
    /\ e.ev = "print"
    /\ e.by = "handle_intent"
    /\ e.text = "\nGenerated SQL:\n{query}"
    /\ e.arg = query

\* C12: in every GenerateQuery turn, the execution of the query and every
\* result or failure outcome of it come after the echo of the turn's query
\* text to the user.
C12_EchoBeforeExecution ==
    (Dispatched /\ IsIntent(intent_data, "generate_sql")) =>
        \A i \in 1..Len(events) :
            IsQueryOutcome(events[i]) =>
                \E j \in 1..(i - 1) : IsEcho(events[j], intent_data.items.query)

\* A GenerateQuery turn has echoed its query, run it and printed a row.
C12_Witness ==
    /\ Dispatched
    /\ IsIntent(intent_data, "generate_sql")
    /\ HasEvent(events, "print", "handle_intent", "\nGenerated SQL:\n{query}")
    /\ HasEvent(events, "call", "execute_query", "cursor.execute")
    /\ HasEvent(events, "print", "handle_intent", "{row}")

\* The store's table and column metadata as the session connection sees it:
\* each table, in the store's order, with its columns' names and types.
StoreMetadata(v) == [i \in 1..Len(v) |-> [table |-> v[i].name, cols |-> v[i].cols]]

\* C13: in every turn in which the oracle is asked, after whatever earlier
\* turns, the schema description put in the prompt is the table and column
\* metadata of the store at that moment.
C13_SchemaNeverStale ==
    (pc = "dispatch" /\ response.status # "unasked") =>
        /\ events[1].ev = "call"
        /\ events[1].text = "client.chat.completions.create"
        /\ events[1].arg = StoreMetadata(view)

\* The oracle has been asked in a turn that follows a load of two tables and
\* an ad hoc DROP the session has not committed: the session sees one table,
\* the file still holds two.
C13_Witness ==
    /\ pc = "dispatch"
    /\ response.status # "unasked"
    /\ Len(view) = 1
    /\ Len(db) = 2
    /\ HasEvent(events, "call", "process_natural_language", "client.chat.completions.create")

\* What handle_intent printed in the turn.
TurnOutput == SelectSeq(events, LAMBDA e : e.ev = "print" /\ e.by = "handle_intent")

\* C14: a ListTables turn whose read of the store did not fail prints, after
\* the heading, one line per table the session's store holds, each table once
\* and in the store's order; with no table it prints the "no tables" line and
\* nothing else, and the session loop's catch-all reports no error.
C14_ListsExactlyTheTables ==
    (/\ Dispatched
     /\ IsIntent(intent_data, "list_tables")
     /\ ~HasEvent(events, "print", "main", "Error: {e}")) =>
        IF view = <<>>
        THEN /\ Len(TurnOutput) = 1
             /\ TurnOutput[1].text = "No tables found in database"
        ELSE /\ Len(TurnOutput) = Len(view) + 1
             /\ TurnOutput[1].text = "\nAvailable tables:"
             /\ \A i \in 1..Len(view) :
                    /\ TurnOutput[i + 1].text = "- {table}"
                    /\ TurnOutput[i + 1].arg = view[i].name
             /\ \A i \in 1..Len(view), j \in 1..Len(view) :
                    view[i].name = view[j].name => i = j

\* A ListTables turn over a store of two tables is over.
C14_Witness ==
    /\ Dispatched
    /\ IsIntent(intent_data, "list_tables")
    /\ Len(view) = 2
    /\ HasEvent(events, "print", "handle_intent", "- {table}")

\* ------------------------------------------------ Exit dispatched twice

\* How often the turn called `text'.
Calls(evs, text) == Cardinality({i \in 1..Len(evs) : evs[i].ev = "call" /\ evs[i].text = text})

\* handle_intent (main.py:142-145) called once more with the exit record and
\* the connection the first call closed, by a caller that survived the first
\* SystemExit.
RedispatchExit ==
    /\ pc = "exited"
    /\ IsIntent(intent_data, "exit")
    /\ ~connOpen
    /\ Calls(events, "conn.close") < 2
    /\ Finish(handle_exit(db, view, inTxn, connOpen, ingestOpen))

NextRedispatch == Next \/ RedispatchExit

SpecRedispatch == Init /\ [][NextRedispatch]_vars

\* C15: when Exit is dispatched a second time, on the connection the first
\* dispatch closed, the second close raises nothing: the handler goes on to
\* say goodbye and to call exit again, the connection stays closed and the
\* session loop's catch-all has nothing to report.
C15_SecondReleaseNoFault ==
    Calls(events, "conn.close") >= 2 =>
        /\ pc = "exited"
        /\ ~connOpen
        /\ Calls(events, "exit") = 2
        /\ Len(SelectSeq(events, LAMBDA e : e.ev = "print" /\ e.text = "Goodbye!")) = 2
        /\ ~HasEvent(events, "print", "main", "Error: {e}")

\* Exit has been dispatched twice.
C15_Witness ==
    /\ pc = "exited"
    /\ ~connOpen
    /\ Calls(events, "conn.close") = 2

\* C17: whatever the oracle answers, the value process_natural_language
\* returns is a key-value record that carries an intent tag.
C17_IntentRecordWellFormed ==
    intent_data.type # "none" =>
        /\ intent_data.type = "dict"
        /\ "intent" \in DOMAIN intent_data.items

\* C18: a load that reports failure leaves the committed tables and their
\* rows as they were before the call.
C18_FailedLoadLeavesStore ==
    [][ (/\ pc = "dispatch"
         /\ LoadTurn
         /\ Last(events').text = "Failed to load {filename}")
        => db' = db ]_vars

\* C19: for every query text and store state, a statement the store executes
\* without error is not caught as a fault and writes no failure to the side
\* log, and whenever execute_query takes its fault path the store has faulted
\* and is as it was.
C19_SuccessNeverReportedAsFault ==
    \A q \in QueryTexts, storeFault \in BOOLEAN :
        LET c == cursor_execute(db, view, inTxn, q, storeFault)
            r == execute_query(db, view, inTxn, q, storeFault)
            logged == HasEvent(r.events, "log", "execute_query",
                               "ERROR Error executing query: {e}")
        IN  /\ c.exc = NoExc => (r.exc = NoExc /\ ~logged)
            /\ (r.exc # NoExc \/ logged) =>
                   (c.exc # NoExc /\ r.db = db /\ r.view = view /\ r.inTxn = inTxn)

====
